---- MODULE Spec2Model ----
(***************************************************************************)
(* A model of the ledger pipeline of deoxxa/accounting: parseFile (the     *)
(* line parser), the trigger rewrite loop of main, and the balancer        *)
(* (Transaction.AutoBalance, Transaction.Balance).                         *)
(*                                                                         *)
(* Representation.                                                         *)
(*  - A ledger file is a sequence of lines and a flag telling whether the  *)
(*    last line ends with "\n".  A line is a record of the lexical parts   *)
(*    the parser looks at: its first byte (Peek), whether it is blank or a *)
(*    comment after TrimSpace, and its tab-separated fields.               *)
(*  - decimal.Decimal is exact, arbitrary-precision arithmetic; amounts    *)
(*    are integers in the unit of the smallest digit of the ledger.        *)
(*  - *decimal.Decimal is a sequence: <<>> is the nil pointer, <<v>> points*)
(*    to the value v.                                                      *)
(*  - regexp is an external library: a pattern is one of a few literal     *)
(*    patterns whose language MatchString spells out.  JS matchers (otto)  *)
(*    are not modelled.                                                    *)
(*  - The flags of main have their default values (triggers and balancing  *)
(*    run), except -no_sort, which is either.  The renderers that follow   *)
(*    the balance phase are not modelled: main stops at pc = "render".     *)
(*  - Two mains exist (src/unnamed/part_001 and part_002); they differ in  *)
(*    the cycle ceiling and in how they end on the cycle error.            *)
(***************************************************************************)
EXTENDS Integers, Sequences, FiniteSets, TLC

VARIABLES
    entry,          \* which main is running: "part_001" or "part_002"
    file,           \* the ledger text main opens: [lines, finalNL]
    rd,             \* the bufio.Reader: index of the next unread line
    triggers,       \* parseFile's triggers, then main's
    transactions,   \* parseFile's transactions, then main's (mutated in place)
    pc,             \* position of main: "parse", "sort", "rewrite",
                    \* "autobalance", "balance", "render"
    ti,             \* index (1-based) of tx in the running loop over transactions
    i,              \* posting index of the rewrite loop (0-based, as in main)
    toFill,         \* toFill of the last call of AutoBalance (index, 0 = nil)
    failed,         \* main's failed flag of the balance phase
    out,            \* what main has printed: one record per report
    exit            \* how the process ended: "" while it runs, "panic" (a Go
                    \* panic) or "exit1" (os.Exit(1))

vars == <<entry, file, rd, triggers, transactions, pc, ti, i, toFill, failed, out, exit>>

(***************************************************************************)
(* Types                                                                   *)
(***************************************************************************)
RealPosting == 0
VirtualPosting == 1
BalancedVirtualPosting == 2

Nil == <<>>

Ptr(v) == <<v>>

Deref(p) == p[1]

Posting(typ, account, amount, comment) ==
    [Type |-> typ, Account |-> account, Amount |-> amount, Comment |-> comment,
     GeneratedBy |-> 0, From |-> 0]

Action(typ, account, amount, comment) ==
    [Type |-> typ, Account |-> account, Amount |-> amount, Comment |-> comment]

(***************************************************************************)
(* Lines of the ledger text                                                *)
(***************************************************************************)
\* kinds: "blank", "comment" (# ...), "matcher" (= /r/), "header"
\* (DATE DESCRIPTION) and "entry" (ACCOUNT[<TAB>AMOUNT...][; comment]).
Line(k, r, date, desc, wrap, name, rest, cm) ==
    [k |-> k, r |-> r, date |-> date, desc |-> desc, wrap |-> wrap, name |-> name,
     rest |-> rest, cm |-> cm]

BlankLine == Line("blank", "", 0, "", "", "", <<>>, "")

CommentLine == Line("comment", "", 0, "", "", "", <<>>, "")

MatcherLine(r) == Line("matcher", r, 0, "", "", "", <<>>, "")

HeaderLine(date, desc) == Line("header", "", date, desc, "", "", <<>>, "")

EntryLine(wrap, name, rest, cm) == Line("entry", "", 0, "", wrap, name, rest, cm)

\* An amount literal: dollar = it has the "$" prefix; ok = what is left after
\* the prefix is a decimal literal, of value v.
Lit(dollar, ok, v) == [dollar |-> dollar, ok |-> ok, v |-> v]

\* The text of a line that is read where an entry line is expected: it has no
\* tab and no ";", so all of it is the account field.
Text(l) ==
    CASE l.k = "matcher" -> "= /" \o l.r \o "/"
      [] l.k = "header" -> (IF l.date = 0 THEN "D?" ELSE "D" \o ToString(l.date))
                             \o (IF l.desc = "" THEN "" ELSE " " \o l.desc)
      [] OTHER -> ""

\* rd.Peek(1): the first byte of the next line, "EOF" at the end of input.
Peek(f, pos) ==
    IF pos > Len(f.lines) THEN "EOF"
    ELSE CASE f.lines[pos].k = "blank" -> "\n"
           [] f.lines[pos].k = "comment" -> "#"
           [] f.lines[pos].k = "matcher" -> "="
           [] OTHER -> "x"

\* rd.ReadString('\n'): the next line; err is io.EOF when the input ends
\* before a "\n" is found, and the bytes read so far are still returned.
ReadString(f, pos) ==
    IF pos > Len(f.lines)
    THEN [l |-> BlankLine, err |-> "EOF", pos |-> pos]
    ELSE [l |-> f.lines[pos],
          err |-> IF pos = Len(f.lines) /\ ~f.finalNL THEN "EOF" ELSE "nil",
          pos |-> pos + 1]

\* strings.TrimSpace(l) == ""
IsBlank(l) == l.k = "blank"

\* strings.HasPrefix(strings.TrimSpace(l), "#")
IsComment(l) == l.k = "comment"

\* getComment: the text before the first ";" and the comment after it.
getComment(l) ==
    IF l.k = "entry"
    THEN [fields |-> <<[wrap |-> l.wrap, name |-> l.name]>> \o l.rest, c |-> l.cm]
    ELSE [fields |-> <<[wrap |-> "", name |-> Text(l)]>>, c |-> ""]

parsePostingTypeAndAccount(s) ==
    CASE s.wrap = "()" -> [typ |-> VirtualPosting, account |-> s.name]
      [] s.wrap = "[]" -> [typ |-> BalancedVirtualPosting, account |-> s.name]
      [] OTHER -> [typ |-> RealPosting, account |-> s.name]

\* decimal.NewFromString(strings.Replace(a[1], "$", "", 1))
NewFromString(lit) == [err |-> IF lit.ok THEN "nil" ELSE "error", n |-> IF lit.ok THEN lit.v ELSE 0]

parsePosting(l) ==
    LET gc == getComment(l)
        a == gc.fields
        ta == parsePostingTypeAndAccount(a[1])
    IN  CASE Len(a) = 1 ->
               [err |-> "nil", v |-> Posting(ta.typ, ta.account, Nil, gc.c)]
          [] Len(a) = 2 ->
               LET n == NewFromString(a[2])
               IN  IF n.err # "nil"
                   THEN [err |-> "error", v |-> Posting(0, "", Nil, "")]
                   ELSE [err |-> "nil", v |-> Posting(ta.typ, ta.account, Ptr(n.n), gc.c)]
          [] OTHER -> [err |-> "error", v |-> Posting(0, "", Nil, "")]

parseAction(l) ==
    LET gc == getComment(l)
        a == gc.fields
        ta == parsePostingTypeAndAccount(a[1])
    IN  CASE Len(a) = 1 ->
               [err |-> "nil", v |-> Action(ta.typ, ta.account, 0, gc.c)]
          [] Len(a) = 2 ->
               LET n == NewFromString(a[2])
               IN  IF n.err # "nil"
                   THEN [err |-> "error", v |-> Action(0, "", 0, "")]
                   ELSE [err |-> "nil", v |-> Action(ta.typ, ta.account, n.n, gc.c)]
          [] OTHER -> [err |-> "error", v |-> Action(0, "", 0, "")]

(***************************************************************************)
(* Matchers and actions                                                    *)
(***************************************************************************)
\* The strings a pattern matches (regexp.MatchString); every pattern of the
\* model is anchored, so a match is the whole account name.
Language(r) ==
    CASE r = "^a$" -> {"a"}
      [] r = "^b$" -> {"b"}
      [] r = "^[ab]$" -> {"a", "b"}
      [] OTHER -> {}

\* The patterns regexp.Compile accepts.
Patterns == {"^a$", "^b$", "^[ab]$"}

EmptyMap == [k \in {} |-> ""]

\* RegexpMatcher.Match: FindStringSubmatch indexed by "0", "1", ..., and
\* MatchString.
RegexpMatcherMatch(m, p) ==
    [b |-> p.Account \in Language(m.r),
     e |-> IF p.Account \in Language(m.r) THEN [k \in {"0"} |-> p.Account] ELSE EmptyMap]

\* for k, v := range mm { m[k] = v }
Merge(m, mm) ==
    [k \in DOMAIN m \cup DOMAIN mm |-> IF k \in DOMAIN mm THEN mm[k] ELSE m[k]]

RECURSIVE matchLoop(_, _, _, _)
matchLoop(ms, k, p, m) ==
    IF k > Len(ms) THEN [b |-> TRUE, m |-> m]
    ELSE LET r == RegexpMatcherMatch(ms[k], p)
         IN  IF ~r.b THEN [b |-> FALSE, m |-> EmptyMap]
             ELSE matchLoop(ms, k + 1, p, Merge(m, r.e))

\* Trigger.Match
Match(tr, p) == matchLoop(tr.Matchers, 1, p, EmptyMap)

\* The account template of an action with its ${...} placeholders replaced.
Expand(template, p, m) ==
    CASE template = "${account}" -> p.Account
      [] template = "${0}" -> (IF "0" \in DOMAIN m THEN m["0"] ELSE "")
      [] template = "${1}" -> (IF "1" \in DOMAIN m THEN m["1"] ELSE "")
      [] OTHER -> template

\* Action.Execute: p.Amount.Mul dereferences p.Amount, which panics on nil.
Execute(a, p, m) ==
    IF p.Amount = Nil
    THEN [panic |-> TRUE, v |-> Posting(0, "", Nil, "")]
    ELSE [panic |-> FALSE,
          v |-> Posting(a.Type, Expand(a.Account, p, m), Ptr(Deref(p.Amount) * a.Amount), "")]

(***************************************************************************)
(* parseTrigger and parseTransaction                                       *)
(***************************************************************************)
NoTrigger == [ID |-> 0, Matchers |-> <<>>, Actions |-> <<>>]

RECURSIVE headerLoop(_, _, _)
headerLoop(f, pos, ms) ==
    LET b == Peek(f, pos)
        rs == ReadString(f, pos)
    IN  CASE b = "EOF" -> [err |-> "nil", Matchers |-> ms, pos |-> pos]
          [] b = "#" -> headerLoop(f, rs.pos, ms)
          [] b = "=" ->
               IF rs.err # "nil" \/ rs.l.r \notin Patterns
               THEN [err |-> "error", Matchers |-> <<>>, pos |-> rs.pos]
               ELSE headerLoop(f, rs.pos, Append(ms, [r |-> rs.l.r]))
          [] OTHER -> [err |-> "nil", Matchers |-> ms, pos |-> pos]

RECURSIVE bodyLoop(_, _, _)
bodyLoop(f, pos, as) ==
    LET rs == ReadString(f, pos)
        a == parseAction(rs.l)
    IN  IF rs.err = "EOF" THEN [err |-> "nil", Actions |-> as, pos |-> rs.pos]
        ELSE IF IsBlank(rs.l) \/ IsComment(rs.l)
        THEN [err |-> "nil", Actions |-> as, pos |-> rs.pos]
        ELSE IF a.err # "nil" THEN [err |-> "error", Actions |-> <<>>, pos |-> rs.pos]
        ELSE bodyLoop(f, rs.pos, Append(as, a.v))

parseTrigger(f, pos) ==
    LET h == headerLoop(f, pos, <<>>)
        b == bodyLoop(f, h.pos, <<>>)
    IN  IF h.err # "nil" THEN [err |-> "error", t |-> NoTrigger, pos |-> h.pos]
        ELSE IF b.err # "nil" THEN [err |-> "error", t |-> NoTrigger, pos |-> b.pos]
        ELSE [err |-> "nil",
              t |-> [ID |-> 0, Matchers |-> h.Matchers, Actions |-> b.Actions],
              pos |-> b.pos]

NoTransaction == [Date |-> 0, Description |-> "", Postings |-> <<>>]

\* The header of a transaction: "panic" when the description is missing (the
\* regexp finds nothing and m[1] is out of range), "error" when time.Parse
\* rejects the date.
parseHeader(l) ==
    CASE l.k = "header" ->
           IF l.desc = "" THEN "panic" ELSE IF l.date = 0 THEN "error" ELSE "nil"
      [] l.k = "entry" -> IF l.cm = "" THEN "panic" ELSE "error"
      [] OTHER -> "error"

RECURSIVE postingLoop(_, _, _)
postingLoop(f, pos, ps) ==
    LET rs == ReadString(f, pos)
        p == parsePosting(rs.l)
    IN  IF rs.err = "EOF" THEN [err |-> "nil", Postings |-> ps, pos |-> rs.pos]
        ELSE IF IsBlank(rs.l) \/ IsComment(rs.l)
        THEN [err |-> "nil", Postings |-> ps, pos |-> rs.pos]
        ELSE IF p.err # "nil" THEN [err |-> "error", Postings |-> <<>>, pos |-> rs.pos]
        ELSE postingLoop(f, rs.pos, Append(ps, p.v))

parseTransaction(f, pos) ==
    LET hdr == ReadString(f, pos)
        h == parseHeader(hdr.l)
        b == postingLoop(f, hdr.pos, <<>>)
    IN  IF hdr.err # "nil" THEN [err |-> "error", t |-> NoTransaction, pos |-> hdr.pos]
        ELSE IF h # "nil" THEN [err |-> h, t |-> NoTransaction, pos |-> hdr.pos]
        ELSE IF b.err # "nil" THEN [err |-> "error", t |-> NoTransaction, pos |-> b.pos]
        ELSE [err |-> "nil",
              t |-> [Date |-> hdr.l.date, Description |-> hdr.l.desc, Postings |-> b.Postings],
              pos |-> b.pos]

(***************************************************************************)
(* The balancer                                                            *)
(***************************************************************************)
RECURSIVE autoBalanceLoop(_, _, _, _)
autoBalanceLoop(ps, k, fill, total) ==
    IF k > Len(ps) THEN [err |-> "nil", toFill |-> fill, total |-> total]
    ELSE IF ps[k].Amount = Nil
    THEN IF fill # 0 THEN [err |-> "error", toFill |-> fill, total |-> total]
         ELSE autoBalanceLoop(ps, k + 1, k, total)
    ELSE autoBalanceLoop(ps, k + 1, fill, total + Deref(ps[k].Amount))

\* AutoBalance with a total that leaves the Virtual postings out.
RECURSIVE autoBalanceLoopNoVirtual(_, _, _, _)
autoBalanceLoopNoVirtual(ps, k, fill, total) ==
    IF k > Len(ps) THEN [err |-> "nil", toFill |-> fill, total |-> total]
    ELSE IF ps[k].Amount = Nil
    THEN IF fill # 0 THEN [err |-> "error", toFill |-> fill, total |-> total]
         ELSE autoBalanceLoopNoVirtual(ps, k + 1, k, total)
    ELSE autoBalanceLoopNoVirtual(ps, k + 1, fill,
            IF ps[k].Type = VirtualPosting THEN total ELSE total + Deref(ps[k].Amount))

AutoBalanceNoVirtual(t) ==
    LET r == autoBalanceLoopNoVirtual(t.Postings, 1, 0, 0)
    IN  [err |-> r.err, toFill |-> r.toFill,
         Postings |-> IF r.err = "nil" /\ r.toFill # 0
                      THEN [t.Postings EXCEPT ![r.toFill].Amount = Ptr(0 - r.total)]
                      ELSE t.Postings]

\* AutoBalance that fills the first elided posting before it finds the second.
AutoBalanceFillsFirst(t) ==
    LET r == autoBalanceLoop(t.Postings, 1, 0, 0)
    IN  [err |-> r.err, toFill |-> r.toFill,
         Postings |-> IF r.toFill # 0
                      THEN [t.Postings EXCEPT ![r.toFill].Amount = Ptr(0 - r.total)]
                      ELSE t.Postings]

\* Transaction.AutoBalance: the error it returns, its toFill, and the postings
\* of the transaction after the call.
AutoBalance(t) ==
    LET r == autoBalanceLoop(t.Postings, 1, 0, 0)
    IN  [err |-> r.err, toFill |-> r.toFill,
         Postings |-> IF r.err = "nil" /\ r.toFill # 0
                      THEN [t.Postings EXCEPT ![r.toFill].Amount = Ptr(0 - r.total)]
                      ELSE t.Postings]

RECURSIVE balanceLoop(_, _, _)
balanceLoop(ps, k, total) ==
    IF k > Len(ps) THEN [panic |-> FALSE, total |-> total]
    ELSE IF ps[k].Type = VirtualPosting THEN balanceLoop(ps, k + 1, total)
    ELSE IF ps[k].Amount = Nil THEN [panic |-> TRUE, total |-> total]
    ELSE balanceLoop(ps, k + 1, total + Deref(ps[k].Amount))

\* Balance that counts the Real postings only.
RECURSIVE balanceLoopRealOnly(_, _, _)
balanceLoopRealOnly(ps, k, total) ==
    IF k > Len(ps) THEN [panic |-> FALSE, total |-> total]
    ELSE IF ps[k].Type # RealPosting THEN balanceLoopRealOnly(ps, k + 1, total)
    ELSE IF ps[k].Amount = Nil THEN [panic |-> TRUE, total |-> total]
    ELSE balanceLoopRealOnly(ps, k + 1, total + Deref(ps[k].Amount))

BalanceRealOnly(t) ==
    LET r == balanceLoopRealOnly(t.Postings, 1, 0)
    IN  [panic |-> r.panic,
         err |-> IF ~r.panic /\ r.total # 0 THEN "error" ELSE "nil",
         total |-> r.total]

\* Transaction.Balance: *e.Amount panics on a nil Amount.
Balance(t) ==
    LET r == balanceLoop(t.Postings, 1, 0)
    IN  [panic |-> r.panic,
         err |-> IF ~r.panic /\ r.total # 0 THEN "error" ELSE "nil",
         total |-> r.total]

(***************************************************************************)
(* The trigger rewrite loop of main, for one posting                       *)
(***************************************************************************)
\* The ceiling of the posting count of a transaction, by entry point.
CeilingPanic == 1000
CeilingExit == 100

Ceiling(e) == IF e = "part_001" THEN CeilingPanic ELSE CeilingExit

\* for _, a := range tr.Actions { pp := a.Execute(p, m); ...; append }
RECURSIVE actionLoop(_, _, _, _, _, _, _)
actionLoop(as, j, p, m, id, idx, ps) ==
    IF j > Len(as) THEN [panic |-> FALSE, Postings |-> ps]
    ELSE LET pp == Execute(as[j], p, m)
         IN  IF pp.panic THEN [panic |-> TRUE, Postings |-> ps]
             ELSE actionLoop(as, j + 1, p, m, id, idx,
                             Append(ps, [pp.v EXCEPT !.GeneratedBy = id, !.From = idx + 1]))

\* for _, tr := range triggers { ... }, for the posting p of index idx
RECURSIVE triggerLoop(_, _, _, _, _)
triggerLoop(trs, k, p, idx, ps) ==
    IF k > Len(trs) THEN [panic |-> FALSE, Postings |-> ps]
    ELSE IF p.GeneratedBy = trs[k].ID THEN triggerLoop(trs, k + 1, p, idx, ps)
    ELSE LET bm == Match(trs[k], p)
             r == actionLoop(trs[k].Actions, 1, p, bm.m, trs[k].ID, idx, ps)
         IN  IF ~bm.b THEN triggerLoop(trs, k + 1, p, idx, ps)
             ELSE IF r.panic THEN r
             ELSE triggerLoop(trs, k + 1, p, idx, r.Postings)

\* The loop over the triggers without the test p.GeneratedBy == tr.ID.
RECURSIVE triggerLoopNoExclusion(_, _, _, _, _)
triggerLoopNoExclusion(trs, k, p, idx, ps) ==
    IF k > Len(trs) THEN [panic |-> FALSE, Postings |-> ps]
    ELSE LET bm == Match(trs[k], p)
             r == actionLoop(trs[k].Actions, 1, p, bm.m, trs[k].ID, idx, ps)
         IN  IF ~bm.b THEN triggerLoopNoExclusion(trs, k + 1, p, idx, ps)
             ELSE IF r.panic THEN r
             ELSE triggerLoopNoExclusion(trs, k + 1, p, idx, r.Postings)

rewritePostingNoExclusion(trs, t, idx) ==
    triggerLoopNoExclusion(trs, 1, t.Postings[idx + 1], idx, t.Postings)

\* The loop over the triggers, last trigger first.
RECURSIVE triggerLoopBackwards(_, _, _, _, _)
triggerLoopBackwards(trs, k, p, idx, ps) ==
    IF k < 1 THEN [panic |-> FALSE, Postings |-> ps]
    ELSE IF p.GeneratedBy = trs[k].ID THEN triggerLoopBackwards(trs, k - 1, p, idx, ps)
    ELSE LET bm == Match(trs[k], p)
             r == actionLoop(trs[k].Actions, 1, p, bm.m, trs[k].ID, idx, ps)
         IN  IF ~bm.b THEN triggerLoopBackwards(trs, k - 1, p, idx, ps)
             ELSE IF r.panic THEN r
             ELSE triggerLoopBackwards(trs, k - 1, p, idx, r.Postings)

rewritePostingBackwards(trs, t, idx) ==
    triggerLoopBackwards(trs, Len(trs), t.Postings[idx + 1], idx, t.Postings)

\* The body of the loop over i, up to the ceiling check.
rewritePosting(trs, t, idx) == triggerLoop(trs, 1, t.Postings[idx + 1], idx, t.Postings)

(***************************************************************************)
(* sort.Sort(transactions): an insertion sort for a list this short        *)
(***************************************************************************)
Less(l, a, b) == l[a].Date < l[b].Date

Swap(l, a, b) == [l EXCEPT ![a] = l[b], ![b] = l[a]]

RECURSIVE sink(_, _)
sink(l, j) == IF j > 1 /\ Less(l, j, j - 1) THEN sink(Swap(l, j, j - 1), j - 1) ELSE l

RECURSIVE insertionSort(_, _)
insertionSort(l, k) == IF k > Len(l) THEN l ELSE insertionSort(sink(l, k), k + 1)

Sort(l) == insertionSort(l, 2)

(***************************************************************************)
(* main                                                                    *)
(***************************************************************************)
Report(t, msg) == [tx |-> t, msg |-> msg]

\* parseFile, case "\n": rd.Discard(1)
parseFileBlank ==
    /\ pc = "parse" /\ exit = ""
    /\ Peek(file, rd) = "\n"
    /\ rd' = rd + 1
    /\ UNCHANGED <<entry, file, triggers, transactions, pc, ti, i, toFill, failed, out, exit>>

\* parseFile, case "#": rd.ReadString('\n')
parseFileComment ==
    /\ pc = "parse" /\ exit = ""
    /\ Peek(file, rd) = "#"
    /\ rd' = ReadString(file, rd).pos
    /\ UNCHANGED <<entry, file, triggers, transactions, pc, ti, i, toFill, failed, out, exit>>

\* parseFile, case "=": parseTrigger; main panics on the error parseFile returns
parseFileTrigger ==
    /\ pc = "parse" /\ exit = ""
    /\ Peek(file, rd) = "="
    /\ LET r == parseTrigger(file, rd)
       IN  /\ rd' = r.pos
           /\ IF r.err # "nil"
              THEN /\ exit' = "panic"
                   /\ UNCHANGED triggers
              ELSE /\ triggers' = Append(triggers, [r.t EXCEPT !.ID = Len(triggers) + 1])
                   /\ UNCHANGED exit
    /\ UNCHANGED <<entry, file, transactions, pc, ti, i, toFill, failed, out>>

\* parseFile, default case: parseTransaction
parseFileTransaction ==
    /\ pc = "parse" /\ exit = ""
    /\ Peek(file, rd) = "x"
    /\ LET r == parseTransaction(file, rd)
       IN  /\ rd' = r.pos
           /\ IF r.err # "nil"
              THEN /\ exit' = "panic"
                   /\ UNCHANGED transactions
              ELSE /\ transactions' = Append(transactions, r.t)
                   /\ UNCHANGED exit
    /\ UNCHANGED <<entry, file, triggers, pc, ti, i, toFill, failed, out>>

\* parseFile at io.EOF: it returns the triggers and the transactions
parseFileEOF ==
    /\ pc = "parse" /\ exit = ""
    /\ Peek(file, rd) = "EOF"
    /\ pc' = "sort"
    /\ UNCHANGED <<entry, file, rd, triggers, transactions, ti, i, toFill, failed, out, exit>>

\* if !noSort { sort.Sort(transactions) }
SortTransactions ==
    /\ pc = "sort" /\ exit = ""
    /\ \E noSort \in BOOLEAN :
          transactions' = IF noSort THEN transactions ELSE Sort(transactions)
    /\ pc' = "rewrite"
    /\ ti' = 1
    /\ i' = 0
    /\ UNCHANGED <<entry, file, rd, triggers, toFill, failed, out, exit>>

\* One iteration of the loop over i: the triggers are run on posting i, then
\* the posting count is checked against the ceiling.
RewritePosting ==
    /\ pc = "rewrite" /\ exit = ""
    /\ ti <= Len(transactions)
    /\ i < Len(transactions[ti].Postings)
    /\ LET r == rewritePosting(triggers, transactions[ti], i)
       IN  IF r.panic
           THEN /\ exit' = "panic"
                /\ UNCHANGED <<transactions, i, out>>
           ELSE /\ transactions' = [transactions EXCEPT ![ti].Postings = r.Postings]
                /\ IF Len(r.Postings) > Ceiling(entry)
                   THEN /\ out' = Append(out, Report(ti, "posting cycle detected"))
                        /\ exit' = IF entry = "part_001" THEN "panic" ELSE "exit1"
                        /\ UNCHANGED i
                   ELSE /\ i' = i + 1
                        /\ UNCHANGED <<out, exit>>
    /\ UNCHANGED <<entry, file, rd, triggers, pc, ti, toFill, failed>>

\* The loop over i ends: the next transaction
RewriteNext ==
    /\ pc = "rewrite" /\ exit = ""
    /\ ti <= Len(transactions)
    /\ i >= Len(transactions[ti].Postings)
    /\ ti' = ti + 1
    /\ i' = 0
    /\ UNCHANGED <<entry, file, rd, triggers, transactions, pc, toFill, failed, out, exit>>

\* The loop over the transactions ends: the balance phase starts
RewriteDone ==
    /\ pc = "rewrite" /\ exit = ""
    /\ ti > Len(transactions)
    /\ pc' = "autobalance"
    /\ ti' = 1
    /\ UNCHANGED <<entry, file, rd, triggers, transactions, i, toFill, failed, out, exit>>

\* if err := tx.AutoBalance(); err != nil { print; failed = true }
AutoBalanceStep ==
    /\ pc = "autobalance" /\ exit = ""
    /\ ti <= Len(transactions)
    /\ LET r == AutoBalance(transactions[ti])
       IN  /\ transactions' = [transactions EXCEPT ![ti].Postings = r.Postings]
           /\ toFill' = r.toFill
           /\ IF r.err # "nil"
              THEN /\ out' = Append(out, Report(ti, "AutoBalance"))
                   /\ failed' = TRUE
              ELSE UNCHANGED <<out, failed>>
    /\ pc' = "balance"
    /\ UNCHANGED <<entry, file, rd, triggers, ti, i, exit>>

\* if err := tx.Balance(); err != nil { print; failed = true }
BalanceStep ==
    /\ pc = "balance" /\ exit = ""
    /\ LET r == Balance(transactions[ti])
       IN  IF r.panic
           THEN /\ exit' = "panic"
                /\ UNCHANGED <<pc, ti, out, failed>>
           ELSE /\ IF r.err # "nil"
                   THEN /\ out' = Append(out, Report(ti, "Balance"))
                        /\ failed' = TRUE
                   ELSE UNCHANGED <<out, failed>>
                /\ pc' = "autobalance"
                /\ ti' = ti + 1
                /\ UNCHANGED exit
    /\ UNCHANGED <<entry, file, rd, triggers, transactions, i, toFill>>

\* if failed { os.Exit(1) }; the renderers follow
BalanceDone ==
    /\ pc = "autobalance" /\ exit = ""
    /\ ti > Len(transactions)
    /\ IF failed
       THEN /\ exit' = "exit1"
            /\ UNCHANGED pc
       ELSE /\ pc' = "render"
            /\ UNCHANGED exit
    /\ UNCHANGED <<entry, file, rd, triggers, transactions, ti, i, toFill, failed, out>>

(***************************************************************************)
(* The ledgers of the model                                                *)
(***************************************************************************)
MaxPostings == 3
MaxTransactions == 2
MaxTriggers == 2
MaxLines == 4

SeqsUpTo(S, n) == UNION {[1..k -> S] : k \in 0..n}

SeqsFromTo(S, m, n) == UNION {[1..k -> S] : k \in m..n}

RECURSIVE Flatten(_)
Flatten(ss) == IF ss = <<>> THEN <<>> ELSE Head(ss) \o Flatten(Tail(ss))

File(lines, finalNL) == [lines |-> lines, finalNL |-> finalNL]

Amt(v) == <<Lit(FALSE, TRUE, v)>>

\* One transaction of up to MaxPostings postings of every kind, with and
\* without an amount, and no trigger.
BalanceEntries ==
    {EntryLine(w, "a", rest, "") :
        w \in {"", "()", "[]"}, rest \in {<<>>, Amt(-1), Amt(1), Amt(2)}}

BalanceFiles ==
    {File(<<HeaderLine(1, "d")>> \o ps, TRUE) : ps \in SeqsUpTo(BalanceEntries, MaxPostings)}

\* Up to MaxTransactions transactions, balanced or not, with zero, one or two
\* elided postings, in any date order.
TransactionBodies ==
    { <<EntryLine("", "a", Amt(1), ""), EntryLine("", "a", Amt(-1), "")>>,
      <<EntryLine("", "a", Amt(1), "")>>,
      <<EntryLine("", "a", Amt(2), ""), EntryLine("", "a", <<>>, "")>>,
      <<EntryLine("", "a", <<>>, ""), EntryLine("[]", "a", <<>>, "")>>,
      <<EntryLine("()", "a", <<>>, ""), EntryLine("()", "a", <<>>, ""),
        EntryLine("", "a", Amt(1), "")>> }

TransactionBlocks ==
    {<<HeaderLine(d, "d")>> \o b \o <<BlankLine>> : d \in {1, 2}, b \in TransactionBodies}

LedgerFiles ==
    {File(Flatten(bs), TRUE) : bs \in SeqsFromTo(TransactionBlocks, 1, MaxTransactions)}

\* Up to MaxTriggers triggers and one transaction: triggers that match their
\* own output, that match each other's output, with no, one or two actions,
\* with one or two matchers, with and without a comment on the action line;
\* postings with and without an amount.
TriggerBlocks ==
    { <<MatcherLine("^a$"), EntryLine("()", "a", Amt(-1), ""), BlankLine>>,
      <<MatcherLine("^a$"), EntryLine("", "b", Amt(1), ""), BlankLine>>,
      <<MatcherLine("^b$"), EntryLine("[]", "a", Amt(-1), "fee"), BlankLine>>,
      <<MatcherLine("^[ab]$"), EntryLine("", "${account}", Amt(-1), ""),
        EntryLine("()", "b", Amt(1), ""), BlankLine>>,
      <<MatcherLine("^b$"), BlankLine>>,
      <<MatcherLine("^[ab]$"), MatcherLine("^a$"), EntryLine("()", "${0}", Amt(1), ""),
        BlankLine>> }

RewriteBodies ==
    { <<EntryLine("", "a", Amt(1), "")>>,
      <<EntryLine("", "a", Amt(2), ""), EntryLine("", "c", <<>>, "")>>,
      <<EntryLine("", "b", Amt(1), ""), EntryLine("", "a", <<>>, "")>>,
      <<EntryLine("", "b", Amt(2), ""), EntryLine("()", "a", Amt(-1), ""),
        EntryLine("", "c", Amt(-2), "")>> }

RewriteFiles ==
    {File(Flatten(ts) \o <<HeaderLine(1, "d")>> \o b, TRUE) :
        ts \in SeqsFromTo(TriggerBlocks, 1, MaxTriggers), b \in RewriteBodies}

\* Two triggers that match each other's output, and two transactions.
CycleBodies ==
    { <<EntryLine("", "c", Amt(1), ""), EntryLine("", "c", Amt(-1), "")>>,
      <<EntryLine("", "a", Amt(1), ""), EntryLine("", "c", Amt(-1), "")>> }

CycleFiles ==
    {File(<<MatcherLine("^a$"), EntryLine("", "b", Amt(1), ""), BlankLine,
            MatcherLine("^b$"), EntryLine("", "a", Amt(-1), ""), BlankLine,
            HeaderLine(1, "d")>> \o b1 \o <<BlankLine, HeaderLine(2, "d")>> \o b2, TRUE) :
        b1 \in CycleBodies, b2 \in CycleBodies}

\* One trigger that matches its own output, and a transaction of WidePostings
\* postings it matches.
WidePostings == 51

WideFiles ==
    {File(<<MatcherLine("^a$"), EntryLine("()", "a", Amt(-1), ""), BlankLine,
            HeaderLine(1, "d")>> \o [k \in 1..WidePostings |-> EntryLine("", "a", Amt(1), "")],
          TRUE)}

\* Every text of up to MaxLines lines, with and without a final "\n".
TextLines ==
    { BlankLine, CommentLine, MatcherLine("^a$"), HeaderLine(1, "d"),
      EntryLine("", "a", <<Lit(TRUE, TRUE, 1)>>, "c"), EntryLine("()", "b", <<>>, "") }

TextFiles ==
    {f \in {File(ls, nl) : ls \in SeqsUpTo(TextLines, MaxLines), nl \in BOOLEAN} :
        f.finalNL \/ (f.lines # <<>> /\ ~IsBlank(f.lines[Len(f.lines)]))}

\* Malformed lines: an amount that is no decimal, a third field, a date
\* time.Parse rejects, a header without description, a matcher that is neither
\* /regexp/ nor JS.
MalformedLines ==
    { EntryLine("", "a", <<Lit(FALSE, FALSE, 0)>>, ""),
      EntryLine("", "a", Amt(1) \o Amt(1), ""),
      HeaderLine(0, "d"), HeaderLine(1, ""), MatcherLine("") }

MalformedFiles ==
    {File(pre \o <<l>>, TRUE) :
        pre \in {<<>>, <<HeaderLine(1, "d")>>, <<MatcherLine("^a$")>>}, l \in MalformedLines}

Init ==
    /\ \/ entry = "part_002" /\ file \in BalanceFiles
       \/ entry = "part_002" /\ file \in LedgerFiles
       \/ entry = "part_002" /\ file \in RewriteFiles
       \/ entry = "part_002" /\ file \in TextFiles
       \/ entry = "part_002" /\ file \in MalformedFiles
       \/ entry = "part_002" /\ file \in WideFiles
       \/ entry \in {"part_001", "part_002"} /\ file \in CycleFiles
    /\ rd = 1
    /\ triggers = <<>>
    /\ transactions = <<>>
    /\ pc = "parse"
    /\ ti = 1
    /\ i = 0
    /\ toFill = 0
    /\ failed = FALSE
    /\ out = <<>>
    /\ exit = ""

Next ==
    \/ parseFileBlank
    \/ parseFileComment
    \/ parseFileTrigger
    \/ parseFileTransaction
    \/ parseFileEOF
    \/ SortTransactions
    \/ RewritePosting
    \/ RewriteNext
    \/ RewriteDone
    \/ AutoBalanceStep
    \/ BalanceStep
    \/ BalanceDone

Spec == Init /\ [][Next]_vars

(***************************************************************************)
(* Properties                                                              *)
(***************************************************************************)
\* The sum of the amounts of the postings of ps whose index is in S.
RECURSIVE SumOver(_, _)
SumOver(ps, S) ==
    IF S = {} THEN 0
    ELSE LET k == CHOOSE x \in S : TRUE
         IN  Deref(ps[k].Amount) + SumOver(ps, S \ {k})

Elided(ps) == {k \in 1..Len(ps) : ps[k].Amount = Nil}

NonVirtual(ps) == {k \in 1..Len(ps) : ps[k].Type # VirtualPosting}

Reported(t, msg) == \E k \in 1..Len(out) : out[k] = Report(t, msg)

\* A step of main that is the call tx.AutoBalance() on transaction ti.
AutoBalanceCall == pc = "autobalance" /\ pc' = "balance"

\* C1: AutoBalance on a transaction with exactly one posting without an
\* amount sets the amount of that posting to the negation of the sum of the
\* amounts of all the other postings, Real, Virtual and BalancedVirtual alike,
\* and changes nothing else.
C1_AutoBalanceFillsElided ==
    [][ (AutoBalanceCall /\ Cardinality(Elided(transactions[ti].Postings)) = 1) =>
          LET ps == transactions[ti].Postings
              k == CHOOSE x \in Elided(ps) : TRUE
          IN  /\ transactions'[ti].Postings[k].Amount
                    = Ptr(0 - SumOver(ps, (1..Len(ps)) \ {k}))
              /\ transactions' = [transactions EXCEPT
                    ![ti].Postings[k].Amount = transactions'[ti].Postings[k].Amount]
              /\ ~Reported(ti, "AutoBalance")' ]_vars

\* AutoBalance has filled a posting of a transaction that also holds a Virtual
\* and a BalancedVirtual posting with amounts that are not zero.
C1_Witness ==
    /\ pc = "balance" /\ toFill # 0 /\ ~Reported(ti, "AutoBalance")
    /\ LET ps == transactions[ti].Postings
       IN  /\ \E k \in 1..Len(ps) :
                 k # toFill /\ ps[k].Type = VirtualPosting /\ ps[k].Amount # Ptr(0)
           /\ \E k \in 1..Len(ps) :
                 k # toFill /\ ps[k].Type = BalancedVirtualPosting /\ ps[k].Amount # Ptr(0)
           /\ ps[toFill].Amount # Ptr(0)

\* Transaction t has been through AutoBalance and Balance, and both returned.
Balanced(t) == pc \in {"autobalance", "balance", "render"} /\ t < ti

\* C2: once AutoBalance and Balance have both returned for a transaction,
\* Balance has reported an error exactly when the sum of the amounts of the
\* postings that are not Virtual is not zero; so when neither reported an
\* error, that sum is zero.
C2_BalanceInvariant ==
    \A t \in 1..Len(transactions) :
        Balanced(t) =>
            LET ps == transactions[t].Postings
            IN  /\ Reported(t, "Balance") <=> SumOver(ps, NonVirtual(ps)) # 0
                /\ (~Reported(t, "AutoBalance") /\ ~Reported(t, "Balance"))
                       => SumOver(ps, NonVirtual(ps)) = 0

\* A transaction passed both checks with a Virtual posting whose amount is not
\* zero, a BalancedVirtual posting and a Real posting.
C2_Witness ==
    \E t \in 1..Len(transactions) :
        /\ Balanced(t) /\ ~Reported(t, "AutoBalance") /\ ~Reported(t, "Balance")
        /\ LET ps == transactions[t].Postings
           IN  /\ \E k \in 1..Len(ps) : ps[k].Type = VirtualPosting /\ ps[k].Amount # Ptr(0)
               /\ \E k \in 1..Len(ps) :
                     ps[k].Type = BalancedVirtualPosting /\ ps[k].Amount # Ptr(0)
               /\ \E k \in 1..Len(ps) : ps[k].Type = RealPosting

\* C3: AutoBalance on a transaction with two or more postings without an
\* amount returns its error (main reports it and sets failed) and changes no
\* posting.
C3_TwoElidedUntouched ==
    [][ (AutoBalanceCall /\ Cardinality(Elided(transactions[ti].Postings)) >= 2) =>
          /\ transactions' = transactions
          /\ out' = Append(out, Report(ti, "AutoBalance"))
          /\ failed' ]_vars

\* AutoBalance has returned its error for a transaction with two postings
\* without an amount and one with an amount.
C3_Witness ==
    /\ pc = "balance" /\ Reported(ti, "AutoBalance")
    /\ LET ps == transactions[ti].Postings
       IN  /\ Cardinality(Elided(ps)) >= 2
           /\ \E k \in 1..Len(ps) : ps[k].Amount # Nil /\ ps[k].Amount # Ptr(0)

\* C4: the balance phase ends the process only after AutoBalance and Balance
\* have both been run on every transaction of the list.
C4_EveryTransactionChecked ==
    (exit # "" /\ pc \in {"autobalance", "balance"}) =>
        \A t \in 1..Len(transactions) : t < ti

Generated(ps) == {k \in 1..Len(ps) : ps[k].GeneratedBy # 0}

Original(ps) == {k \in 1..Len(ps) : ps[k].GeneratedBy = 0}

\* No posting was generated by a trigger from a posting that the same trigger
\* generated.
SelfExclusion ==
    \A t \in 1..Len(transactions) :
        LET ps == transactions[t].Postings
        IN  \A k \in Generated(ps) :
                /\ ps[k].From \in 1..Len(ps)
                /\ ps[ps[k].From].GeneratedBy # ps[k].GeneratedBy

\* Trigger tr matches a posting of account x and has an action that yields a
\* posting of account y from it.
Probe(x) == Posting(RealPosting, x, Ptr(1), "")

Yields(tr, x, y) ==
    /\ Match(tr, Probe(x)).b
    /\ \E j \in 1..Len(tr.Actions) :
          Expand(tr.Actions[j].Account, Probe(x), Match(tr, Probe(x)).m) = y

\* The matchers of tr match the account that an action of tr yields.
SelfMatching(tr) ==
    \E x \in {"a", "b"}, y \in {"a", "b"} : Yields(tr, x, y) /\ Match(tr, Probe(y)).b

\* C5 as claimed: self-exclusion holds in every state, and with a single
\* trigger whose matchers match the output of its own action the rewrite loop
\* never raises the cycle error.
C5_SingleTriggerNeverCycles ==
    /\ SelfExclusion
    /\ (Len(triggers) = 1 /\ SelfMatching(triggers[1])) =>
          \A t \in 1..Len(transactions) : ~Reported(t, "posting cycle detected")

\* C5 as amended: self-exclusion holds in every state; with a single trigger
\* every generated posting comes from an original posting, and the cycle
\* error is raised only for a transaction whose original postings, with one
\* generated posting per action for each of them, exceed the ceiling.
C5_SelfExclusion ==
    /\ SelfExclusion
    /\ Len(triggers) = 1 =>
          \A t \in 1..Len(transactions) :
              LET ps == transactions[t].Postings
              IN  /\ \A k \in Generated(ps) : ps[k].From \in Original(ps)
                  /\ Reported(t, "posting cycle detected") =>
                        Cardinality(Original(ps)) * (1 + Len(triggers[1].Actions))
                            > Ceiling(entry)

\* The rewrite loop is past a transaction in which the single trigger has
\* generated a posting that its own matchers match.
C5_Witness ==
    /\ Len(triggers) = 1 /\ SelfMatching(triggers[1]) /\ pc = "rewrite" /\ exit = ""
    /\ \E t \in 1..Len(transactions) :
          /\ t < ti
          /\ \E k \in Generated(transactions[t].Postings) :
                Match(triggers[1], transactions[t].Postings[k]).b

\* Triggers A and B match each other's output: A matches account x and has an
\* action that yields account y from it, B matches y and has an action that
\* yields x from it.
MutualCycle(t) ==
    \E A \in 1..Len(triggers), B \in 1..Len(triggers), x \in {"a", "b"}, y \in {"a", "b"} :
        /\ A # B
        /\ Yields(triggers[A], x, y)
        /\ Yields(triggers[B], y, x)
        /\ \E k \in Original(transactions[t].Postings) :
              transactions[t].Postings[k].Account = x

\* The rewrite loop has stopped on transaction t with the cycle error, at the
\* first posting index after which the posting count exceeds the ceiling.
CycleErrorAt(t) ==
    LET ps == transactions[t].Postings
    IN  /\ Reported(t, "posting cycle detected")
        /\ exit = (IF entry = "part_001" THEN "panic" ELSE "exit1")
        /\ Len(ps) > Ceiling(entry)
        /\ \/ i = 0
           \/ Cardinality({k \in 1..Len(ps) : ps[k].From # i + 1}) <= Ceiling(entry)

\* C6: a transaction with a posting matched by one of two triggers that match
\* each other's output is never rewritten to the end: the rewrite loop stops
\* on it, with the cycle error, at the first posting index after which the
\* posting count exceeds the ceiling, and the process ends there.
C6_CycleDetected ==
    \A t \in 1..Len(transactions) :
        (pc \notin {"parse", "sort"} /\ MutualCycle(t)) =>
            /\ pc = "rewrite"
            /\ ti <= t
            /\ (ti = t /\ exit # "") => CycleErrorAt(t)

\* The same, for the ledgers in which every posting has an amount.
C6_CycleDetectedWithAmounts ==
    (\A t \in 1..Len(transactions) : Elided(transactions[t].Postings) = {})
        => C6_CycleDetected

\* C9: whenever the rewrite loop is about to run the triggers on a posting,
\* every trigger that will execute an action on it finds an amount in it.
C9_SourceAmountResolved ==
    (pc = "rewrite" /\ exit = "" /\ ti <= Len(transactions)
        /\ i < Len(transactions[ti].Postings)) =>
        LET p == transactions[ti].Postings[i + 1]
        IN  \A k \in 1..Len(triggers) :
                (p.GeneratedBy # triggers[k].ID /\ Match(triggers[k], p).b
                    /\ triggers[k].Actions # <<>>) => p.Amount # Nil

\* The postings that the triggers generate from the posting of index idx
\* (1-based) of ps: for each trigger in declaration order that did not
\* generate it and whose matchers all match it, one posting per action, in
\* declaration order.
Produced(ps, idx) ==
    Flatten([k \in 1..Len(triggers) |->
        IF ps[idx].GeneratedBy # triggers[k].ID /\ Match(triggers[k], ps[idx]).b
        THEN [j \in 1..Len(triggers[k].Actions) |->
                [Type |-> triggers[k].Actions[j].Type,
                 Account |-> Expand(triggers[k].Actions[j].Account, ps[idx],
                                    Match(triggers[k], ps[idx]).m),
                 Amount |-> IF ps[idx].Amount = Nil THEN Nil
                            ELSE Ptr(Deref(ps[idx].Amount) * triggers[k].Actions[j].Amount),
                 GeneratedBy |-> triggers[k].ID,
                 From |-> idx]]
        ELSE <<>>])

Provenance(p) ==
    [Type |-> p.Type, Account |-> p.Account, Amount |-> p.Amount,
     GeneratedBy |-> p.GeneratedBy, From |-> p.From]

\* Transaction t has been rewritten to the end, without the cycle error.
Rewritten(t) == pc = "rewrite" /\ t < ti

RewrittenExactly ==
    \A t \in 1..Len(transactions) :
        Rewritten(t) =>
            LET ps == transactions[t].Postings
                n == Cardinality(Original(ps))
            IN  /\ Original(ps) = 1..n
                /\ [k \in 1..(Len(ps) - n) |-> Provenance(ps[n + k])]
                      = Flatten([idx \in 1..Len(ps) |-> Produced(ps, idx)])

\* C10: a transaction that the rewrite loop has finished holds its original
\* postings first and then, for each posting index in order (generated
\* postings included), the postings of each trigger in declaration order that
\* did not generate that posting and matches it, one per action in order;
\* and a step of the rewrite loop only appends postings.
C10_RewriteOrder ==
    /\ []RewrittenExactly
    /\ [][pc = "rewrite" =>
            /\ Len(transactions') = Len(transactions)
            /\ \A t \in 1..Len(transactions) :
                  /\ Len(transactions'[t].Postings) >= Len(transactions[t].Postings)
                  /\ SubSeq(transactions'[t].Postings, 1, Len(transactions[t].Postings))
                        = transactions[t].Postings]_vars

\* A finished transaction in which the second trigger fired on a posting that
\* the first trigger generated, and some trigger appended two postings.
C10_Witness ==
    \E t \in 1..Len(transactions) :
        /\ Rewritten(t)
        /\ LET ps == transactions[t].Postings
           IN  /\ \E k \in Generated(ps) :
                     ps[k].GeneratedBy = 2 /\ ps[ps[k].From].GeneratedBy = 1
               /\ \E k \in Generated(ps) :
                     k < Len(ps) /\ ps[k + 1].GeneratedBy = ps[k].GeneratedBy
                       /\ ps[k + 1].From = ps[k].From

\* The lines of the block that starts at the first line of the file: those
\* after the first line and before the first blank line, comment line or the
\* end of the input.
RECURSIVE BlockFrom(_, _)
BlockFrom(f, pos) ==
    IF pos > Len(f.lines) \/ IsBlank(f.lines[pos]) \/ IsComment(f.lines[pos]) THEN <<>>
    ELSE <<f.lines[pos]>> \o BlockFrom(f, pos + 1)

WellFormedPostingLine(l) == l.k = "entry" /\ parsePosting(l).err = "nil"

\* The file starts with a transaction block: a header and well-formed posting
\* lines.
StartsWithTransaction(f) ==
    /\ f.lines # <<>>
    /\ f.lines[1].k = "header" /\ parseHeader(f.lines[1]) = "nil"
    /\ BlockFrom(f, 2) # <<>>
    /\ \A k \in 1..Len(BlockFrom(f, 2)) : WellFormedPostingLine(BlockFrom(f, 2)[k])

\* C7: when parseFile has returned, the first transaction block of the file
\* has become a transaction with one posting for each posting line between
\* the header and the block's terminator, in line order, whether or not the
\* input ends with a newline.
C7_EveryPostingLineParsed ==
    (pc = "sort" /\ StartsWithTransaction(file)) =>
        /\ transactions # <<>>
        /\ transactions[1].Postings
              = [k \in 1..Len(BlockFrom(file, 2)) |-> parsePosting(BlockFrom(file, 2)[k]).v]

\* The same, for the inputs that end with a newline.
C7_EveryTerminatedPostingLineParsed == file.finalNL => C7_EveryPostingLineParsed

\* The file starts with a trigger whose first action line has the account
\* field only, and that line ends with a newline.
StartsWithBareAction(f) ==
    /\ Len(f.lines) >= 2
    /\ f.lines[1].k = "matcher" /\ f.lines[1].r \in Patterns
    /\ f.lines[2].k = "entry" /\ f.lines[2].rest = <<>>
    /\ Len(f.lines) > 2 \/ f.finalNL

\* The file is a header and one posting line with the account field only.
IsBarePosting(f) ==
    /\ Len(f.lines) = 2 /\ f.finalNL
    /\ f.lines[1].k = "header" /\ parseHeader(f.lines[1]) = "nil"
    /\ f.lines[2].k = "entry" /\ f.lines[2].rest = <<>>

\* C8: a file with an action line that has no amount field is rejected with a
\* parse error as soon as its trigger is parsed, and a file with a posting
\* line that has no amount field is accepted, with a posting whose amount is
\* unset.
C8_AmountRequiredForActions ==
    /\ (StartsWithBareAction(file) /\ rd > 1) => (pc = "parse" /\ exit = "panic")
    /\ IsBarePosting(file) =>
          /\ ~(pc = "parse" /\ exit = "panic")
          /\ pc = "sort" => (Len(transactions) = 1
                              /\ Len(transactions[1].Postings) = 1
                              /\ transactions[1].Postings[1].Amount = Nil)

\* The posting p of the transaction of postings ps was made by the action a of
\* the trigger tr from its source posting: amount and account are the ones
\* Action.Execute computes.
MadeBy(ps, p, tr, a) ==
    /\ p.GeneratedBy = tr.ID
    /\ p.From \in 1..Len(ps)
    /\ LET src == ps[p.From]
       IN  /\ src.Amount # Nil
           /\ Match(tr, src).b
           /\ p.Amount = Ptr(Deref(src.Amount) * a.Amount)
           /\ p.Account = Expand(a.Account, src, Match(tr, src).m)

\* Every generated posting has the kind of an action that made it.
KindCopied ==
    \A t \in 1..Len(transactions) :
        LET ps == transactions[t].Postings
        IN  \A g \in Generated(ps) :
                \E k \in 1..Len(triggers) : \E j \in 1..Len(triggers[k].Actions) :
                    /\ MadeBy(ps, ps[g], triggers[k], triggers[k].Actions[j])
                    /\ ps[g].Type = triggers[k].Actions[j].Type

\* Every generated posting has the kind and the comment of an action that
\* made it.
KindAndCommentCopied ==
    \A t \in 1..Len(transactions) :
        LET ps == transactions[t].Postings
        IN  \A g \in Generated(ps) :
                \E k \in 1..Len(triggers) : \E j \in 1..Len(triggers[k].Actions) :
                    /\ MadeBy(ps, ps[g], triggers[k], triggers[k].Actions[j])
                    /\ ps[g].Type = triggers[k].Actions[j].Type
                    /\ ps[g].Comment = triggers[k].Actions[j].Comment

\* A step of the rewrite loop leaves the triggers and every posting that
\* exists, the source posting included, as they were: it only appends.
ExecuteFrame ==
    pc = "rewrite" =>
        /\ triggers' = triggers
        /\ Len(transactions') = Len(transactions)
        /\ \A t \in 1..Len(transactions) :
              /\ Len(transactions'[t].Postings) >= Len(transactions[t].Postings)
              /\ \A k \in 1..Len(transactions[t].Postings) :
                    transactions'[t].Postings[k] = transactions[t].Postings[k]

\* C11: Action.Execute changes neither the source posting nor anything else
\* that exists, and the posting it constructs has the kind and the comment of
\* the action that made it.
C11_ExecuteCopiesKindAndComment ==
    /\ []KindAndCommentCopied
    /\ [][ExecuteFrame]_vars

\* C11, the part the code keeps: no side effect, and the kind is copied.
C11_ExecuteCopiesKind ==
    /\ []KindCopied
    /\ [][ExecuteFrame]_vars

\* A posting was generated by an action that has a comment.
C11_CommentedActionExecuted ==
    \E t \in 1..Len(transactions) :
        LET ps == transactions[t].Postings
        IN  \E g \in Generated(ps) :
                \E k \in 1..Len(triggers) : \E j \in 1..Len(triggers[k].Actions) :
                    /\ MadeBy(ps, ps[g], triggers[k], triggers[k].Actions[j])
                    /\ ps[g].Type = triggers[k].Actions[j].Type
                    /\ triggers[k].Actions[j].Comment # ""

====
